---- MODULE Spec2Model ----
(***************************************************************************)
(* The device-record store of System_API/api.py: the Flask handlers        *)
(* save_data, get_data, delete_device, rename_device and update_device,    *)
(* each running in its own transaction against the table device_data.      *)
(*                                                                         *)
(* A handler is a caller's position (pc) through its code: the request is  *)
(* parsed and validated, the SQL statement is issued (its snapshot and the *)
(* transaction's CURRENT_TIMESTAMP are taken), the statement executes once *)
(* no other transaction holds the row, conn.commit() publishes its write,  *)
(* and the response is built.  The storage engine is PostgreSQL at its     *)
(* default READ COMMITTED level: uncommitted writes are invisible to other *)
(* transactions, a writer waits for the transaction that holds the row (or *)
(* the unique key), and an UPDATE or DELETE that waited goes on with the   *)
(* newest committed version of the row it found.  The application and the  *)
(* storage engine read the same clock.                                     *)
(***************************************************************************)
EXTENDS Integers, Sequences, FiniteSets, TLC

VARIABLES inputs, table, seq, now, started, pc, op, arg, stamp, snap, pend, resp

vars == <<inputs, table, seq, now, started, pc, op, arg, stamp, snap, pend, resp>>

\* Bounds of the model: the requests of a run and the clock's last value.
MaxRequests == 3
MaxTime == 1

\* The concurrent callers.
Procs == {"c1", "c2"}

-----------------------------------------------------------------------------
(* JSON values.  Every value is a record of one shape: k is the JSON type, *)
(* a the text of a scalar (or of an array, which is kept whole), o the     *)
(* key/value function of an object.                                        *)

JObj(f) == [k |-> "object", a |-> "", o |-> f]
JStr(s) == [k |-> "string", a |-> s, o |-> <<>>]
JNum(s) == [k |-> "number", a |-> s, o |-> <<>>]
JArr(s) == [k |-> "array", a |-> s, o |-> <<>>]
\* The jsonb value null.
JNull == [k |-> "null", a |-> "", o |-> <<>>]
\* Python's None where a JSON value is expected.
PyNone == [k |-> "None", a |-> "", o |-> <<>>]
\* SQL NULL, which is not a jsonb value.
SqlNull == [k |-> "sqlnull", a |-> "", o |-> <<>>]
\* A failed SQL expression (the statement raises).
JError == [k |-> "error", a |-> "", o |-> <<>>]
\* A key the request body does not carry.
KeyAbsent == [k |-> "absent", a |-> "", o |-> <<>>]
\* Python's None / SQL NULL in a text column.
None == "None"

\* json.dumps(json_data), read by the jsonb column: Python's None is
\* written as the JSON literal null, which is a jsonb value and not SQL
\* NULL; a dict, a string or a number is written as the same JSON value.
JsonDumps(v) == IF v = PyNone THEN JNull ELSE v

\* The json_data of a fetched row: the jsonb null is loaded as None.
JsonLoads(j) == IF j = JNull THEN PyNone ELSE j

\* jsonb -> text: the value at a key of an object, SQL NULL otherwise.
Arrow(j, key) ==
    IF j.k = "object" /\ key \in DOMAIN j.o THEN j.o[key] ELSE SqlNull

\* to_jsonb(%s::text)
ToJsonb(s) == JStr(s)

\* PostgreSQL's setPath for text path elements: an object is descended by
\* key, the last key is replaced or created, a missing earlier key or a
\* scalar on the way leaves the value as it is, an array on the way raises
\* (the path element is not an integer).
RECURSIVE SetPath(_, _, _)
SetPath(t, path, v) ==
    IF t.k = "object"
    THEN LET key == Head(path) IN
         IF Len(path) = 1
         THEN JObj([x \in DOMAIN t.o \cup {key} |-> IF x = key THEN v ELSE t.o[x]])
         ELSE IF key \in DOMAIN t.o
              THEN LET sub == SetPath(t.o[key], Tail(path), v) IN
                   IF sub = JError THEN JError
                   ELSE JObj([t.o EXCEPT ![key] = sub])
              ELSE t
    ELSE IF t.k = "array" THEN JError
    ELSE t

\* jsonb_set(target, path, new_value): raises on a scalar target.
JsonbSet(target, path, v) ==
    IF target.k \notin {"object", "array"} THEN JError
    ELSE IF Len(path) = 0 THEN target
    ELSE SetPath(target, path, v)

\* The json_data expression of rename_device's UPDATE.
RenameJson(json_data, new_name) ==
    LET inner == IF Arrow(json_data, "user") = SqlNull
                 THEN JsonbSet(json_data, <<"user">>, JObj(<<>>))
                 ELSE json_data
    IN IF inner = JError THEN JError
       ELSE JsonbSet(inner, <<"user", "provided_username">>, ToJsonb(new_name))

-----------------------------------------------------------------------------
(* Request inputs.                                                         *)

Macs == {"m1", "m2"}
Names == {"Alice"}

DEmpty == JObj(<<>>)
DA1 == JObj("a" :> JNum("1"))
DA2 == JObj("a" :> JNum("2"))
DTemp == JObj("temp" :> JNum("5"))
DUserObj == JObj(("temp" :> JNum("5")) @@ ("user" :> JObj("role" :> JStr("admin"))))
DUserStr == JObj("user" :> JStr("x"))
DUserNull == JObj("user" :> JNull)
DUserArr == JObj("user" :> JArr("[1]"))

\* What a request body may carry as username and json_data (KeyAbsent: it
\* carries no json_data).
Payload(u, j) == [username |-> u, json_data |-> j]

\* The payloads of the general run: two different ones for save_data, and
\* for update_device one that names no username.
PlainInputs ==
    [save |-> {Payload("bob", DA1), Payload(None, KeyAbsent)},
     update |-> {Payload(None, DA2)}]

\* The payloads of the run on documents rename_device has to patch.
JsonInputs ==
    [save |-> {Payload("bob", DTemp), Payload("bob", DUserObj),
               Payload(None, DUserStr), Payload(None, DUserNull),
               Payload(None, DUserArr), Payload("bob", PyNone)},
     update |-> {Payload("bob", PyNone), Payload(None, JNum("5"))}]

NoBody == [present |-> FALSE, mac_address |-> None, username |-> None,
           json_data |-> KeyAbsent, name |-> None]

Body(m, u, j, n) ==
    [present |-> TRUE, mac_address |-> m, username |-> u, json_data |-> j,
     name |-> n]

\* request.get_json() of save_data (NoBody: the body is the JSON null).
SaveBodies ==
    {NoBody} \cup
    {Body(m, x.username, x.json_data, None) : m \in Macs \cup {None}, x \in inputs.save}

\* request.get_json() of update_device.
UpdateBodies ==
    {NoBody, Body(None, None, KeyAbsent, None)} \cup
    {Body(None, x.username, x.json_data, None) : x \in inputs.update}

\* request.get_json() of rename_device.
RenameBodies ==
    {NoBody} \cup {Body(None, None, KeyAbsent, n) : n \in Names \cup {None}}

-----------------------------------------------------------------------------
(* The table device_data.                                                  *)

Row(i, m, u, j, c, t) ==
    [id |-> i, mac_address |-> m, username |-> u, json_data |-> j,
     created_at |-> c, updated_at |-> t]

NoRow == Row(0, None, None, SqlNull, 0, 0)

\* The committed rows with this mac_address.
RowsOf(m) == {r \in table : r.mac_address = m}

NoArg == [mac_address |-> None, username |-> None, json_data |-> SqlNull]
NoStamp == [created_at |-> 0, updated_at |-> 0]
NoWrite == [kind |-> "none", row |-> NoRow]
NoResp == [status |-> 0, data |-> NoRow, list |-> <<>>]

\* dict(row) of a fetched row.
Shown(row) == [row EXCEPT !.json_data = JsonLoads(@)]

Reply(code, row) == [status |-> code, data |-> row, list |-> <<>>]

\* The transactions holding an uncommitted write of a row with this key.
Holders(m) ==
    {q \in Procs : pc[q] = "executed" /\ pend[q].kind # "none"
                   /\ pend[q].row.mac_address = m}

Start ==
    /\ table = {}
    /\ seq = 0
    /\ now = 0
    /\ started = 0
    /\ pc = [p \in Procs |-> "idle"]
    /\ op = [p \in Procs |-> "none"]
    /\ arg = [p \in Procs |-> NoArg]
    /\ stamp = [p \in Procs |-> NoStamp]
    /\ snap = [p \in Procs |-> NoRow]
    /\ pend = [p \in Procs |-> NoWrite]
    /\ resp = [p \in Procs |-> NoResp]

\* The general run.
Init == inputs = PlainInputs /\ Start

\* The run on documents rename_device has to patch.
InitJson == inputs = JsonInputs /\ Start

\* The clock advances.
Tick ==
    /\ now < MaxTime
    /\ now' = now + 1
    /\ UNCHANGED <<inputs, table, seq, started, pc, op, arg, stamp, snap, pend, resp>>

\* A caller sends a request once its previous one is answered.
Accept(p, name) ==
    /\ pc[p] \in {"idle", "done"}
    /\ started < MaxRequests
    /\ started' = started + 1
    /\ op' = [op EXCEPT ![p] = name]

\* The handler returns: its locals and its transaction are gone.
Leave(p) ==
    /\ arg' = [arg EXCEPT ![p] = NoArg]
    /\ stamp' = [stamp EXCEPT ![p] = NoStamp]
    /\ snap' = [snap EXCEPT ![p] = NoRow]
    /\ pend' = [pend EXCEPT ![p] = NoWrite]

\* A request is answered without touching the store.
Reject(p, code) ==
    /\ pc' = [pc EXCEPT ![p] = "done"]
    /\ Leave(p)
    /\ resp' = [resp EXCEPT ![p] = Reply(code, NoRow)]
    /\ UNCHANGED <<inputs, table, seq, now>>

\* The table once a transaction's write is committed.
Apply(w) ==
    CASE w.kind = "insert" -> table \cup {w.row}
      [] w.kind = "update" -> {r \in table : r.id # w.row.id} \cup {w.row}
      [] w.kind = "delete" -> {r \in table : r.id # w.row.id}
      [] OTHER -> table

-----------------------------------------------------------------------------
(* POST /api/data                                                          *)

\* save_data up to cur.execute: the body is read and validated, and the two
\* datetime.now() arguments are read one after the other (created_at, then
\* updated_at); the clock may advance between the two reads.
SaveDataRecv(p) ==
    /\ Accept(p, "save_data")
    /\ \E data \in SaveBodies :
         IF ~data.present \/ data.mac_address = None
         THEN Reject(p, 400)
         ELSE \E d \in {0, 1} :
              /\ now + d <= MaxTime
              /\ now' = now + d
              /\ pc' = [pc EXCEPT ![p] = "stmt"]
              /\ arg' = [arg EXCEPT ![p] =
                           [mac_address |-> data.mac_address,
                            username |-> data.username,
                            json_data |-> IF data.json_data = KeyAbsent
                                          THEN DEmpty ELSE data.json_data]]
              /\ stamp' = [stamp EXCEPT ![p] =
                             [created_at |-> now, updated_at |-> now + d]]
              /\ snap' = [snap EXCEPT ![p] = NoRow]
              /\ pend' = [pend EXCEPT ![p] = NoWrite]
              /\ resp' = [resp EXCEPT ![p] = NoResp]
              /\ UNCHANGED <<inputs, table, seq>>

\* A variant of Upsert: a plain INSERT into a table with no unique key.
UpsertInsertOnly(a, ts, i) ==
    [kind |-> "insert",
     row |-> Row(i, a.mac_address, a.username, JsonDumps(a.json_data),
                 ts.created_at, ts.updated_at)]

\* A variant of Upsert: on a conflict only updated_at is refreshed, so the
\* earlier committer's username and json_data stay.
UpsertFirstWins(a, ts, i) ==
    IF RowsOf(a.mac_address) = {}
    THEN UpsertInsertOnly(a, ts, i)
    ELSE [kind |-> "update",
          row |-> [(CHOOSE r \in RowsOf(a.mac_address) : TRUE)
                     EXCEPT !.updated_at = ts.updated_at]]

\* The write of INSERT ... ON CONFLICT (mac_address) DO UPDATE with the
\* arguments a, the timestamps ts and the sequence's next value i.
Upsert(a, ts, i) ==
    IF RowsOf(a.mac_address) = {}
    THEN [kind |-> "insert",
          row |-> Row(i, a.mac_address, a.username, JsonDumps(a.json_data),
                      ts.created_at, ts.updated_at)]
    ELSE LET old == CHOOSE r \in RowsOf(a.mac_address) : TRUE IN
         [kind |-> "update",
          row |-> [old EXCEPT !.username = a.username,
                              !.json_data = JsonDumps(a.json_data),
                              !.updated_at = ts.updated_at]]

\* cur.execute of save_data: it waits while another transaction holds the
\* key; the id's sequence advances whether the row is inserted or updated.
SaveDataExec(p) ==
    /\ pc[p] = "stmt"
    /\ op[p] = "save_data"
    /\ Holders(arg[p].mac_address) \subseteq {p}
    /\ seq' = seq + 1
    /\ pend' = [pend EXCEPT ![p] = Upsert(arg[p], stamp[p], seq + 1)]
    /\ pc' = [pc EXCEPT ![p] = "executed"]
    /\ UNCHANGED <<inputs, table, now, started, op, arg, stamp, snap, resp>>

\* conn.commit() of save_data and its 201 response.
SaveDataCommit(p) ==
    /\ pc[p] = "executed"
    /\ op[p] = "save_data"
    /\ table' = Apply(pend[p])
    /\ pc' = [pc EXCEPT ![p] = "done"]
    /\ resp' = [resp EXCEPT ![p] = Reply(201, Shown(pend[p].row))]
    /\ Leave(p)
    /\ UNCHANGED <<inputs, seq, now, started, op>>

-----------------------------------------------------------------------------
(* GET /api/data                                                           *)

\* The orders SELECT ... ORDER BY created_at DESC may return the rows in.
Listings ==
    {s \in [1..Cardinality(table) -> table] :
        /\ \A i, j \in DOMAIN s : i # j => s[i] # s[j]
        /\ \A i, j \in DOMAIN s : i < j => s[i].created_at >= s[j].created_at}

\* get_data: one SELECT of the committed rows.
GetData(p) ==
    /\ Accept(p, "get_data")
    /\ \E s \in Listings :
         resp' = [resp EXCEPT ![p] =
                    [status |-> 200, data |-> NoRow,
                     list |-> [i \in DOMAIN s |-> Shown(s[i])]]]
    /\ pc' = [pc EXCEPT ![p] = "done"]
    /\ Leave(p)
    /\ UNCHANGED <<inputs, table, seq, now>>

-----------------------------------------------------------------------------
(* Statements with WHERE mac_address = %s                                  *)

\* The row a statement's snapshot finds for a key (NoRow: none).
Visible(m) == IF RowsOf(m) = {} THEN NoRow ELSE CHOOSE r \in RowsOf(m) : TRUE

\* A variant of Target: the statement has no WHERE clause.
TargetAny(s) == table

\* The newest committed version of the row s a snapshot found, if the row
\* is still there.
Target(s) == {r \in table : s.id # 0 /\ r.id = s.id}

\* A statement waits while another transaction holds the row it found.
Blocked(p, s) == Target(s) # {} /\ ~(Holders(s.mac_address) \subseteq {p})

\* DELETE FROM device_data WHERE mac_address = %s RETURNING id
DeleteWrite(s) ==
    IF Target(s) = {} THEN NoWrite
    ELSE [kind |-> "delete", row |-> CHOOSE r \in Target(s) : TRUE]

\* The row rename_device's UPDATE writes over the row old.
RenameRow(old, new_name, ts) ==
    [old EXCEPT !.username = new_name,
                !.json_data = RenameJson(old.json_data, new_name),
                !.updated_at = ts]

\* A variant of RenameWrite: the document is patched by the caller from
\* the row it read, and written back whole.
RenameWriteStale(s, new_name, ts) ==
    IF Target(s) = {} THEN NoWrite
    ELSE [kind |-> "update", row |-> RenameRow(s, new_name, ts)]

RenameWrite(s, new_name, ts) ==
    IF Target(s) = {} THEN NoWrite
    ELSE [kind |-> "update",
          row |-> RenameRow(CHOOSE r \in Target(s) : TRUE, new_name, ts)]

\* A variant of UpdateRow: an omitted username keeps the stored one.
UpdateRowKeepName(old, username, json_data, ts) ==
    [old EXCEPT !.username = IF username = None THEN @ ELSE username,
                !.json_data = JsonDumps(json_data),
                !.updated_at = ts]

\* The row update_device's UPDATE writes over the row old.
UpdateRow(old, username, json_data, ts) ==
    [old EXCEPT !.username = username,
                !.json_data = JsonDumps(json_data),
                !.updated_at = ts]

UpdateWrite(s, username, json_data, ts) ==
    IF Target(s) = {} THEN NoWrite
    ELSE [kind |-> "update",
          row |-> UpdateRow(CHOOSE r \in Target(s) : TRUE, username, json_data, ts)]

\* The write of a handler's statement, with its snapshot s, its arguments a
\* and its transaction's CURRENT_TIMESTAMP ts.
Statement(name, s, a, ts) ==
    CASE name = "delete_device" -> DeleteWrite(s)
      [] name = "rename_device" -> RenameWrite(s, a.username, ts)
      [] name = "update_device" -> UpdateWrite(s, a.username, a.json_data, ts)

\* cur.execute returns with the write w uncommitted, or raises: the
\* handler's except branch answers 500 and nothing is committed.
Run(p, w, s, a, ts) ==
    IF w.row.json_data = JError
    THEN /\ pc' = [pc EXCEPT ![p] = "done"]
         /\ resp' = [resp EXCEPT ![p] = Reply(500, NoRow)]
         /\ Leave(p)
    ELSE /\ pc' = [pc EXCEPT ![p] = "executed"]
         /\ pend' = [pend EXCEPT ![p] = w]
         /\ resp' = [resp EXCEPT ![p] = NoResp]
         /\ arg' = [arg EXCEPT ![p] = a]
         /\ stamp' = [stamp EXCEPT ![p] = [created_at |-> 0, updated_at |-> ts]]
         /\ snap' = [snap EXCEPT ![p] = s]

\* The statement is issued: the transaction begins (CURRENT_TIMESTAMP is
\* its start time), the snapshot finds the committed row with this key or
\* none, and the statement executes at once unless it has to wait.
Issue(p, name, a) ==
    /\ IF Blocked(p, Visible(a.mac_address))
       THEN /\ pc' = [pc EXCEPT ![p] = "stmt"]
            /\ arg' = [arg EXCEPT ![p] = a]
            /\ stamp' = [stamp EXCEPT ![p] = [created_at |-> 0, updated_at |-> now]]
            /\ snap' = [snap EXCEPT ![p] = Visible(a.mac_address)]
            /\ pend' = [pend EXCEPT ![p] = NoWrite]
            /\ resp' = [resp EXCEPT ![p] = NoResp]
       ELSE Run(p, Statement(name, Visible(a.mac_address), a, now),
                Visible(a.mac_address), a, now)
    /\ UNCHANGED <<inputs, table, seq, now>>

\* The transaction that held the row has ended and the statement goes on.
Resume(p) ==
    /\ pc[p] = "stmt"
    /\ ~Blocked(p, snap[p])
    /\ Run(p, Statement(op[p], snap[p], arg[p], stamp[p].updated_at),
           snap[p], arg[p], stamp[p].updated_at)
    /\ UNCHANGED <<inputs, table, seq, now, started, op>>

\* conn.commit() and the response: 200 with the RETURNING row when the
\* statement found its row, 404 when it found none.
Committed(p, returned) ==
    /\ pc[p] = "executed"
    /\ table' = Apply(pend[p])
    /\ pc' = [pc EXCEPT ![p] = "done"]
    /\ resp' = [resp EXCEPT ![p] =
                  IF pend[p].kind = "none" THEN Reply(404, NoRow)
                  ELSE Reply(200, Shown(returned))]
    /\ Leave(p)
    /\ UNCHANGED <<inputs, seq, now, started, op>>

\* A column RETURNING does not name.
NotReturned == -1

-----------------------------------------------------------------------------
(* DELETE /api/data/<mac_address>                                          *)

DeleteBegin(p) ==
    /\ Accept(p, "delete_device")
    /\ \E m \in Macs :
         Issue(p, "delete_device", [NoArg EXCEPT !.mac_address = m])

DeleteExec(p) ==
    /\ op[p] = "delete_device"
    /\ Resume(p)

DeleteCommit(p) ==
    /\ op[p] = "delete_device"
    /\ Committed(p, NoRow)

-----------------------------------------------------------------------------
(* PATCH /api/data/<mac_address>/rename                                    *)

RenameBegin(p) ==
    /\ Accept(p, "rename_device")
    /\ \E m \in Macs, data \in RenameBodies :
         IF ~data.present THEN Reject(p, 500)
         ELSE IF data.name = None THEN Reject(p, 400)
         ELSE Issue(p, "rename_device",
                    [mac_address |-> m, username |-> data.name, json_data |-> SqlNull])

RenameExec(p) ==
    /\ op[p] = "rename_device"
    /\ Resume(p)

\* RETURNING id, mac_address, username, json_data
RenameCommit(p) ==
    /\ op[p] = "rename_device"
    /\ Committed(p, [pend[p].row EXCEPT !.created_at = NotReturned,
                                        !.updated_at = NotReturned])

-----------------------------------------------------------------------------
(* PUT /devices/<mac_address>                                              *)

UpdateBegin(p) ==
    /\ Accept(p, "update_device")
    /\ \E m \in Macs, data \in UpdateBodies :
         IF ~data.present \/ data.json_data = KeyAbsent
         THEN Reject(p, 400)
         ELSE Issue(p, "update_device",
                    [mac_address |-> m, username |-> data.username,
                     json_data |-> data.json_data])

UpdateExec(p) ==
    /\ op[p] = "update_device"
    /\ Resume(p)

\* RETURNING id, mac_address, username, json_data, updated_at
UpdateCommit(p) ==
    /\ op[p] = "update_device"
    /\ Committed(p, [pend[p].row EXCEPT !.created_at = NotReturned])

-----------------------------------------------------------------------------
Next ==
    \/ Tick
    \/ \E p \in Procs : SaveDataRecv(p)
    \/ \E p \in Procs : SaveDataExec(p)
    \/ \E p \in Procs : SaveDataCommit(p)
    \/ \E p \in Procs : GetData(p)
    \/ \E p \in Procs : DeleteBegin(p)
    \/ \E p \in Procs : DeleteExec(p)
    \/ \E p \in Procs : DeleteCommit(p)
    \/ \E p \in Procs : RenameBegin(p)
    \/ \E p \in Procs : RenameExec(p)
    \/ \E p \in Procs : RenameCommit(p)
    \/ \E p \in Procs : UpdateBegin(p)
    \/ \E p \in Procs : UpdateExec(p)
    \/ \E p \in Procs : UpdateCommit(p)

Spec == Init /\ [][Next]_vars

SpecJson == InitJson /\ [][Next]_vars

-----------------------------------------------------------------------------
(* Properties.                                                             *)

\* The step in which caller p's handler name commits and answers.
Commits(p, name) == pc[p] = "executed" /\ op[p] = name /\ pc'[p] = "done"

\* The committed row the uncommitted write of p is a new version of.
Old(p) == {r \in table : r.id = pend[p].row.id}

\* Caller p holds the answer code of handler name.
Answered(p, name, code) ==
    pc[p] = "done" /\ op[p] = name /\ resp[p].status = code

\* C1: in every reachable state the store holds at most one record for each
\* mac_address.
C1_OneRecordPerMac ==
    \A r1, r2 \in table : r1.mac_address = r2.mac_address => r1 = r2

\* Two save_data calls on one mac_address have both committed and the
\* second updated the first one's row.
C1_Witness ==
    \E p, q \in Procs :
        /\ p # q
        /\ Answered(p, "save_data", 201)
        /\ Answered(q, "save_data", 201)
        /\ resp[p].data.mac_address = resp[q].data.mac_address
        /\ resp[p].data.id = resp[q].data.id
        /\ Cardinality(RowsOf(resp[p].data.mac_address)) = 1

\* C2: when a save_data call commits, the store holds exactly one record
\* for its mac_address, and that record's username and json_data are the
\* call's own, whatever an earlier committer had written.
C2_LastCommitWins ==
    [][\A p \in Procs :
         Commits(p, "save_data") =>
           LET rows == {r \in table' : r.mac_address = arg[p].mac_address} IN
           /\ Cardinality(rows) = 1
           /\ \A r \in rows :
                /\ r.username = arg[p].username
                /\ JsonLoads(r.json_data) = arg[p].json_data]_vars

\* Two save_data calls on one mac_address ran concurrently with different
\* payloads (q read the clock before p did and committed after it), and
\* the one record is q's.
C2_Witness ==
    \E p, q \in Procs :
        /\ p # q
        /\ Answered(p, "save_data", 201)
        /\ Answered(q, "save_data", 201)
        /\ resp[p].data.id = resp[q].data.id
        /\ resp[p].data.json_data # resp[q].data.json_data
        /\ resp[q].data.updated_at < resp[p].data.created_at
        /\ \A r \in RowsOf(resp[q].data.mac_address) : Shown(r) = resp[q].data
        /\ RowsOf(resp[q].data.mac_address) # {}

\* C3: every record satisfies created_at <= updated_at.
C3_CreatedBeforeUpdated ==
    \A r \in table : r.created_at <= r.updated_at

\* C4: once save_data has inserted the record of a mac_address that had
\* none, list_all yields exactly one record for it, with the call's
\* username and json_data and with created_at equal to updated_at.
C4_FreshInsert ==
    [][\A p \in Procs :
         (Commits(p, "save_data") /\ pend[p].kind = "insert") =>
           \A s \in Listings' :
             LET hits == {i \in DOMAIN s : s[i].mac_address = arg[p].mac_address} IN
             /\ Cardinality(hits) = 1
             /\ \A i \in hits :
                  /\ s[i].username = arg[p].username
                  /\ JsonLoads(s[i].json_data) = arg[p].json_data
                  /\ s[i].created_at = s[i].updated_at]_vars

\* C5: a rename that commits on a record whose json_data is an object sets
\* username and json_data.user.provided_username to the new name and keeps
\* every other top-level key and every other key under user.
C5_RenamePatches ==
    [][\A p \in Procs :
         (Commits(p, "rename_device") /\ pend[p].kind = "update") =>
           \A old \in Old(p) :
             old.json_data.k = "object" =>
               \E r \in table' :
                 /\ r.id = old.id
                 /\ r.username = arg[p].username
                 /\ Arrow(Arrow(r.json_data, "user"), "provided_username")
                      = JStr(arg[p].username)
                 /\ \A key \in DOMAIN old.json_data.o \ {"user"} :
                      Arrow(r.json_data, key) = old.json_data.o[key]
                 /\ Arrow(old.json_data, "user").k = "object" =>
                      \A key \in DOMAIN old.json_data.o["user"].o \ {"provided_username"} :
                        Arrow(Arrow(r.json_data, "user"), key)
                          = old.json_data.o["user"].o[key]]_vars

\* C6 as claimed: an update_device call that names no username writes the
\* given json_data over the record's and leaves its username as it was.
C6_UsernameKept ==
    [][\A p \in Procs :
         (Commits(p, "update_device") /\ pend[p].kind = "update"
            /\ arg[p].username = None) =>
           \A old \in Old(p) :
             \E r \in table' :
               /\ r.id = old.id
               /\ JsonLoads(r.json_data) = arg[p].json_data
               /\ r.username = old.username]_vars

\* C6 as amended: an update_device call that names no username writes the
\* given json_data over the record's and sets its username to null.
C6_UsernameNulled ==
    [][\A p \in Procs :
         (Commits(p, "update_device") /\ pend[p].kind = "update"
            /\ arg[p].username = None) =>
           \A old \in Old(p) :
             \E r \in table' :
               /\ r.id = old.id
               /\ JsonLoads(r.json_data) = arg[p].json_data
               /\ r.username = None]_vars

\* save_data(mac, "bob", {"a":1}) answered by q, then update_device(mac,
\* {"a":2}) answered by p, and the record read back.
C6_Witness ==
    \E p, q \in Procs :
        /\ Answered(q, "save_data", 201)
        /\ resp[q].data.username = "bob"
        /\ resp[q].data.json_data = DA1
        /\ Answered(p, "update_device", 200)
        /\ resp[p].data.id = resp[q].data.id
        /\ resp[p].data.json_data = DA2
        /\ \E r \in table :
             r.id = resp[p].data.id /\ r.json_data = DA2 /\ r.username = None

\* The handlers whose statement has a WHERE mac_address = %s.
Keyed == {"delete_device", "rename_device", "update_device"}

\* C7: a record appears only when a save_data commits and disappears only
\* when a delete_device commits; a rename, replace or delete issued for a
\* mac_address with no record finds no row, and one that found no row
\* answers 404 and leaves the whole store as it was.
C7_NotFoundNoInsert ==
    [][/\ \A m \in Macs :
            /\ (RowsOf(m) = {} /\ RowsOf(m)' # {}) =>
                 \E p \in Procs :
                   Commits(p, "save_data") /\ arg[p].mac_address = m
            /\ (RowsOf(m) # {} /\ RowsOf(m)' = {}) =>
                 \E p \in Procs :
                   Commits(p, "delete_device") /\ arg[p].mac_address = m
       /\ \A p \in Procs :
            /\ (pc[p] \in {"idle", "done"} /\ pc'[p] \in {"stmt", "executed"}
                  /\ op'[p] \in Keyed /\ RowsOf(arg'[p].mac_address) = {}) =>
                 (pc'[p] = "executed" /\ pend'[p].kind = "none")
            /\ (pc[p] = "executed" /\ op[p] \in Keyed /\ pc'[p] = "done"
                  /\ (pend[p].kind = "none" \/ RowsOf(arg[p].mac_address) = {})) =>
                 (resp'[p].status = 404 /\ table' = table)]_vars

\* A rename and a delete have both answered 404 while the store holds
\* another device's record.
C7_Witness ==
    \E p, q \in Procs :
        /\ Answered(p, "rename_device", 404)
        /\ Answered(q, "delete_device", 404)
        /\ table # {}

\* C8: the json_data of a stored record is never null.
C8_JsonNeverNull ==
    \A r \in table : r.json_data \notin {JNull, SqlNull}

NonObjectUser(j) ==
    j.k = "object" /\ "user" \in DOMAIN j.o /\ j.o["user"].k # "object"

\* C10: a rename of a record whose json_data.user is present and is not an
\* object answers with the validation error and leaves the record as it
\* was.
C10_RejectsNonObjectUser ==
    [][\A p \in Procs :
         (Commits(p, "rename_device") /\ pend[p].kind = "update"
            /\ \E old \in Old(p) : NonObjectUser(old.json_data)) =>
           (resp'[p].status = 400 /\ table' = table)]_vars

====
